---- MODULE Spec2Model ----
(***************************************************************************)
(* A model of github.com/weisbartb/csv: the scalar codec and the           *)
(* capability dispatch of cache.go (getEncoderProvider,                    *)
(* getDecoderProvider, csvInstruction.GetMetadata), the NullableField      *)
(* wrapper of nullable.go, the Reader (Next, initialize, readHeader,       *)
(* nextRow) and the Writer (WriteRecord, writeHeader).                     *)
(*                                                                         *)
(* Texts (cells, tags, column names) are strings, read character by        *)
(* character with SubSeq.  A Go value is a record with the same fields for *)
(* every kind (see GoVal); a Go struct value is the sequence of its field  *)
(* values in declaration order.                                            *)
(***************************************************************************)
EXTENDS Integers, Sequences, FiniteSets, TLC

(***************************************************************************)
(* Text helpers (package strings).                                         *)
(***************************************************************************)
CharAt(s, i) == SubSeq(s, i, i)

Digits == "0123456789"

IsDigit(c) == \E d \in 1..10 : CharAt(Digits, d) = c

DigitVal(c) == (CHOOSE d \in 1..10 : CharAt(Digits, d) = c) - 1

DigitChar(d) == CharAt(Digits, d + 1)

HasPrefix(s, prefix) ==
    /\ Len(s) >= Len(prefix)
    /\ SubSeq(s, 1, Len(prefix)) = prefix

\* the position of the first occurrence of the one-character text c in s, 0 if none
IndexOf(s, c) ==
    IF \E i \in 1..Len(s) : CharAt(s, i) = c
    THEN CHOOSE i \in 1..Len(s) :
            /\ CharAt(s, i) = c
            /\ \A j \in 1..(i - 1) : CharAt(s, j) # c
    ELSE 0

RECURSIVE Split(_, _)
\* strings.Split(s, sep) for a one-character separator: always at least one part
Split(s, sep) ==
    LET i == IndexOf(s, sep)
    IN  IF i = 0 THEN <<s>>
        ELSE <<SubSeq(s, 1, i - 1)>> \o Split(SubSeq(s, i + 1, Len(s)), sep)

\* strings.SplitN(s, sep, 2)
SplitN2(s, sep) ==
    LET i == IndexOf(s, sep)
    IN  IF i = 0 THEN <<s>>
        ELSE <<SubSeq(s, 1, i - 1), SubSeq(s, i + 1, Len(s))>>

(***************************************************************************)
(* Package strconv.  A parse result is [val, err] with err one of "" (no   *)
(* error), "syntax" (strconv.ErrSyntax) and "range" (strconv.ErrRange).    *)
(* TLC's integers are 32 bits wide, so the extent of the kinds of          *)
(* 32 bits and more is capped at 2^31-1 in IntMax/UintMax; int8, int16,    *)
(* uint8 and uint16 keep their width.                                      *)
(***************************************************************************)
RECURSIVE FormatUint(_)
FormatUint(n) ==
    IF n < 10 THEN DigitChar(n)
    ELSE FormatUint(n \div 10) \o DigitChar(n % 10)

FormatInt(n) == IF n < 0 THEN "-" \o FormatUint(0 - n) ELSE FormatUint(n)

IntMax(bitSize) ==
    CASE bitSize = 8 -> 127
      [] bitSize = 16 -> 32767
      [] OTHER -> 2147483646

UintMax(bitSize) ==
    CASE bitSize = 8 -> 255
      [] bitSize = 16 -> 65535
      [] OTHER -> 2147483646

RECURSIVE ParseDigits(_, _, _)
\* the loop of strconv.ParseUint: the digits of s from the left onto acc; "syntax"
\* at a character that is no digit, "range" (and the value max) as soon as the
\* value exceeds max
ParseDigits(s, acc, max) ==
    IF Len(s) = 0 THEN [val |-> acc, err |-> ""]
    ELSE LET c == CharAt(s, 1)
         IN  IF ~IsDigit(c) THEN [val |-> 0, err |-> "syntax"]
             ELSE IF acc > (max - DigitVal(c)) \div 10
                  THEN [val |-> max, err |-> "range"]
                  ELSE ParseDigits(SubSeq(s, 2, Len(s)), acc * 10 + DigitVal(c), max)

ParseUint(s, bitSize) ==
    IF Len(s) = 0 THEN [val |-> 0, err |-> "syntax"]
    ELSE ParseDigits(s, 0, UintMax(bitSize))

ParseInt(s, bitSize) ==
    IF Len(s) = 0 THEN [val |-> 0, err |-> "syntax"]
    ELSE LET c      == CharAt(s, 1)
             neg    == c = "-"
             rest   == IF c = "+" \/ c = "-" THEN SubSeq(s, 2, Len(s)) ELSE s
             un     == ParseUint(rest, bitSize)
             cutoff == IntMax(bitSize) + 1
         IN  IF un.err = "syntax" THEN [val |-> 0, err |-> "syntax"]
             ELSE IF ~neg /\ un.val >= cutoff THEN [val |-> cutoff - 1, err |-> "range"]
             ELSE IF neg /\ un.val > cutoff THEN [val |-> 0 - cutoff, err |-> "range"]
             ELSE IF un.err = "range" THEN [val |-> IF neg THEN 0 - cutoff ELSE cutoff - 1, err |-> "range"]
             ELSE [val |-> IF neg THEN 0 - un.val ELSE un.val, err |-> ""]

ParseBool(s) ==
    IF s \in {"1", "t", "T", "TRUE", "true", "True"} THEN [val |-> TRUE, err |-> ""]
    ELSE IF s \in {"0", "f", "F", "FALSE", "false", "False"} THEN [val |-> FALSE, err |-> ""]
    ELSE [val |-> FALSE, err |-> "syntax"]

(***************************************************************************)
(* Floats.  A float is the decimal m * 10^(-e), e >= 0, normalised so that *)
(* e = 0 or m is no multiple of 10: the shortest decimal that identifies   *)
(* it, which is what FormatFloat(f, 'f', -1, 64) prints.  The float32      *)
(* values of the model are dyadic (0.5, 2.25, ...), so that widening them  *)
(* to float64 (reflect.Value.Float) keeps their decimal.  The texts of the *)
(* model hold no exponent, "inf" or "nan".                                 *)
(***************************************************************************)
RECURSIVE NormFloat(_, _)
NormFloat(m, e) ==
    IF e > 0 /\ m % 10 = 0 THEN NormFloat(m \div 10, e - 1) ELSE [m |-> m, e |-> e]

RECURSIVE Pow10(_)
Pow10(e) == IF e = 0 THEN 1 ELSE 10 * Pow10(e - 1)

RECURSIVE PadLeft(_, _)
PadLeft(s, n) == IF Len(s) >= n THEN s ELSE PadLeft("0" \o s, n)

\* strconv.FormatFloat(f, 'f', -1, 64) of the float m * 10^(-e)
FormatFloat(m, e) ==
    LET mag  == IF m < 0 THEN 0 - m ELSE m
        sign == IF m < 0 THEN "-" ELSE ""
        ip   == FormatUint(mag \div Pow10(e))
        fp   == PadLeft(FormatUint(mag % Pow10(e)), e)
    IN  IF e = 0 THEN sign \o ip ELSE sign \o ip \o "." \o fp

\* strconv.ParseFloat on texts of the form [+-]digits[.digits]
ParseFloat(s) ==
    LET c    == IF Len(s) = 0 THEN "" ELSE CharAt(s, 1)
        neg  == c = "-"
        rest == IF c = "+" \/ c = "-" THEN SubSeq(s, 2, Len(s)) ELSE s
        dot  == IndexOf(rest, ".")
        ip   == IF dot = 0 THEN rest ELSE SubSeq(rest, 1, dot - 1)
        fp   == IF dot = 0 THEN "" ELSE SubSeq(rest, dot + 1, Len(rest))
        ipv  == ParseDigits(ip, 0, 2147483646)
        all  == ParseDigits(ip \o fp, 0, 2147483646)
        syn  == [val |-> [m |-> 0, e |-> 0], err |-> "syntax"]
    IN  IF Len(ip) + Len(fp) = 0 THEN syn
        ELSE IF all.err = "syntax" THEN syn
        ELSE IF all.err = "range"
             THEN [val |-> [m |-> 0, e |-> 0], err |-> "range"]
        ELSE [val |-> NormFloat(IF neg THEN 0 - all.val ELSE all.val, Len(fp)),
              err |-> ""]

(***************************************************************************)
(* Go types (reflect.Type).  kind is the reflect.Kind; elem is <<>> or the *)
(* one type a pointer or slice type is built on; vcaps are the             *)
(* capabilities in the method set of the type itself (value receivers),    *)
(* pcaps those that only a pointer to it has (pointer receivers).          *)
(***************************************************************************)
Caps == {"MarshalCSV", "TextMarshaler", "Stringer", "UnmarshalCSV", "TextUnmarshaler", "Zeroer"}

IntKinds == {"int", "int8", "int16", "int32", "int64"}

UintKinds == {"uint", "uint8", "uint16", "uint32", "uint64"}

FloatKinds == {"float32", "float64"}

ScalarKinds == {"string", "bool"} \cup IntKinds \cup UintKinds \cup FloatKinds

GoType(name, kind, elem, vcaps, pcaps) ==
    [name |-> name, kind |-> kind, elem |-> elem, vcaps |-> vcaps, pcaps |-> pcaps]

Scalar(kind) == GoType(kind, kind, <<>>, {}, {})

\* *T: its method set holds the methods of both receivers
PtrTo(t) == GoType("*" \o t.name, "ptr", <<t>>, t.vcaps \cup t.pcaps, {})

\* reflect.Type.Implements
Implements(t, cap) == cap \in t.vcaps

\* strconv.IntSize is 64; the bit size the decoder hands to the parser
BitSize(kind) ==
    CASE kind \in {"int8", "uint8"} -> 8
      [] kind \in {"int16", "uint16"} -> 16
      [] kind \in {"int32", "uint32", "float32"} -> 32
      [] OTHER -> 64

\* NullableField[T] is a slice type []T with MarshalCSV, IsNull and Get on the
\* value and UnmarshalCSV, Set and Unset on the pointer; it has no IsZero
NullableField(t) ==
    GoType("NullableField[" \o t.name \o "]", "slice", <<t>>, {"MarshalCSV"}, {"UnmarshalCSV"})

\* MarshallableTime embeds time.Time, whose String, MarshalText and IsZero (value)
\* and UnmarshalText (pointer) are promoted beside its own MarshalCSV / UnmarshalCSV
MarshallableTime ==
    GoType("MarshallableTime", "struct", <<>>,
           {"MarshalCSV", "TextMarshaler", "Stringer", "Zeroer"},
           {"UnmarshalCSV", "TextUnmarshaler"})

\* net.IP is []byte with String and MarshalText (value) and UnmarshalText (pointer)
IP == GoType("net.IP", "slice", <<Scalar("uint8")>>, {"TextMarshaler", "Stringer"}, {"TextUnmarshaler"})

\* a struct type with no capability at all
PlainStruct == GoType("PlainStruct", "struct", <<>>, {}, {})

\* a named integer type whose only capability is String() string
Level == GoType("Level", "int", <<>>, {"Stringer"}, {})

IsNullable(t) == HasPrefix(t.name, "NullableField[")

(***************************************************************************)
(* Go values (reflect.Value / any).  k is the name of the dynamic type; i  *)
(* the integer payload (a float's mantissa, the content of a struct, the   *)
(* address of an IP), e a float's number of decimals, s the string         *)
(* payload, b the bool payload (for a slice or pointer: it is not nil), n  *)
(* the elements of a slice or the pointee of a pointer.                    *)
(***************************************************************************)
GoVal(k, i, e, s, b, n) == [k |-> k, i |-> i, e |-> e, s |-> s, b |-> b, n |-> n]

NilVal == GoVal("nil", 0, 0, "", FALSE, <<>>)

IntVal(k, x) == GoVal(k, x, 0, "", FALSE, <<>>)

FloatVal(k, m, e) == GoVal(k, m, e, "", FALSE, <<>>)

StringVal(x) == GoVal("string", 0, 0, x, FALSE, <<>>)

BoolVal(x) == GoVal("bool", 0, 0, "", x, <<>>)

\* the zero value of a type: 0, "", false, a nil slice or pointer, the zero struct
ZeroOf(t) == GoVal(t.name, 0, 0, "", FALSE, <<>>)

\* a zero check that looks into a slice: one zero element is zero too
ValueIsZeroInner(t, v) ==
    CASE t.kind = "slice" ->
            \/ ~v.b
            \/ Len(v.n) > 0 /\ v.n[1].i = 0 /\ v.n[1].s = "" /\ ~v.n[1].b
      [] t.kind = "ptr" -> ~v.b
      [] t.kind = "string" -> v.s = ""
      [] t.kind = "bool" -> ~v.b
      [] OTHER -> v.i = 0

\* reflect.Value.IsZero
ValueIsZero(t, v) ==
    CASE t.kind \in {"slice", "ptr"} -> ~v.b
      [] t.kind = "string" -> v.s = ""
      [] t.kind = "bool" -> ~v.b
      [] OTHER -> v.i = 0

(***************************************************************************)
(* Errors.  msg is the text of the innermost error, ctx the texts that     *)
(* stack.Wrap put around it (stack.Trace adds none), is the sentinels      *)
(* errors.Is finds in the chain, class the kind of failure.                *)
(***************************************************************************)
GoErr(class, msg, is) == [class |-> class, msg |-> msg, ctx |-> <<>>, is |-> is]

NoErr == GoErr("", "", {})

IsErr(err) == err.class # ""

\* stack.Wrap(err, text): the chain is kept, so errors.Is still finds io.EOF
Wrap(err, text) == [err EXCEPT !.ctx = <<text>> \o @]

\* stack.Trace(err): the message and the chain are kept
Trace(err) == err

NumError(fn, str, parsed) ==
    GoErr("conversion",
          "strconv." \o fn \o ": parsing \"" \o str \o "\": "
              \o (IF parsed.err = "range" THEN "value out of range" ELSE "invalid syntax"),
          {IF parsed.err = "range" THEN "strconv.ErrRange" ELSE "strconv.ErrSyntax"})

ParseErr(fn, str, parsed) == IF parsed.err = "" THEN NoErr ELSE NumError(fn, str, parsed)

(***************************************************************************)
(* The conversions of the capability-backed types.  An encoding is         *)
(* [cell, err, called, panic], a decoding [val, err, called]; called lists *)
(* the conversions invoked, in order.                                      *)
(***************************************************************************)
Encoded(cell, err, called) == [cell |-> cell, err |-> err, called |-> called, panic |-> FALSE]

EncodePanic(called) == [cell |-> "", err |-> NoErr, called |-> called, panic |-> TRUE]

Decoded(val, err, called) == [val |-> val, err |-> err, called |-> called]

\* the type a pointer type points to, the type itself otherwise
Base(t) == IF t.kind = "ptr" THEN t.elem[1] ELSE t

\* the value a method with a value receiver sees
Deref(t, v) == IF t.kind = "ptr" THEN v.n[1] ELSE v

NilPtr(t, v) == t.kind = "ptr" /\ ~v.b

\* time.RFC3339 of the instant i seconds past the zero time, 0 <= i <= 9
TimePrefix == "0001-01-01T00:00:0"

FormatRFC3339(i) == TimePrefix \o DigitChar(i) \o "Z"

ParseRFC3339(str) ==
    LET n == Len(TimePrefix)
    IN  IF /\ Len(str) = n + 2
           /\ SubSeq(str, 1, n) = TimePrefix
           /\ IsDigit(CharAt(str, n + 1))
           /\ CharAt(str, n + 2) = "Z"
        THEN [val |-> DigitVal(CharAt(str, n + 1)), err |-> ""]
        ELSE [val |-> 0, err |-> "syntax"]

TimeParseError(str) ==
    GoErr("conversion", "parsing time \"" \o str \o "\": cannot parse as RFC3339", {})

\* net.IP.String of the address 10.0.0.i
IPPrefix == "10.0.0."

FormatIP(i) == IPPrefix \o FormatUint(i)

ParseIP(str) ==
    LET n    == Len(IPPrefix)
        last == ParseUint(SubSeq(str, n + 1, Len(str)), 8)
    IN  IF HasPrefix(str, IPPrefix) /\ last.err = ""
        THEN [val |-> last.val, err |-> ""]
        ELSE [val |-> 0, err |-> "syntax"]

RECURSIVE Encoder(_, _, _)
RECURSIVE Decoder(_, _, _, _, _)

\* NullableField.MarshalCSV
NullableMarshalCSV(t, v) ==
    IF Len(v.n) = 0 THEN Encoded("", NoErr, <<"MarshalCSV">>)
    ELSE LET inner == Encoder(t.elem[1], FALSE, v.n[1])
         IN  [inner EXCEPT !.called = <<"MarshalCSV">> \o @]

\* MarshalCSV of the value v of type t (a type that implements it)
MarshalCSV(t, v) ==
    IF NilPtr(t, v) THEN EncodePanic(<<"MarshalCSV">>)
    ELSE IF IsNullable(Base(t)) THEN NullableMarshalCSV(Base(t), Deref(t, v))
    ELSE Encoded(FormatRFC3339(Deref(t, v).i), NoErr, <<"MarshalCSV">>)

\* encoding.TextMarshaler: time.Time.MarshalText, net.IP.MarshalText
MarshalText(t, v) ==
    IF NilPtr(t, v) THEN EncodePanic(<<"MarshalText">>)
    ELSE IF Base(t).name = "net.IP"
         THEN Encoded(IF Deref(t, v).b THEN FormatIP(Deref(t, v).i) ELSE "",
                      NoErr, <<"MarshalText">>)
    ELSE Encoded(FormatRFC3339(Deref(t, v).i), NoErr, <<"MarshalText">>)

\* Zeroer.IsZero (time.Time.IsZero): "yes", "no", or "panic" through a nil pointer
ZeroerIsZero(t, v) ==
    IF NilPtr(t, v) THEN "panic"
    ELSE IF Deref(t, v).i = 0 THEN "yes" ELSE "no"

\* NullableField.UnmarshalCSV on a fresh (nil) NullableField
NullableUnmarshalCSV(t, data) ==
    LET blank == t.elem[1]
        inner == Decoder(blank, "nullable value", FALSE, data, FALSE)
        calls == <<"UnmarshalCSV">> \o inner.called
    IN  IF Len(data) = 0 THEN Decoded(ZeroOf(t), NoErr, <<"UnmarshalCSV">>)
        ELSE IF IsErr(inner.err) THEN Decoded(ZeroOf(t), inner.err, calls)
        ELSE IF inner.val.k # blank.name
             THEN Decoded(ZeroOf(t),
                          GoErr("conversion", "invalid decoder response for nullable", {}),
                          calls)
        ELSE Decoded(GoVal(t.name, 0, 0, "", TRUE, <<inner.val>>), NoErr, calls)

\* UnmarshalCSV into a fresh value of type t: the value it leaves and its error
UnmarshalCSV(t, data) ==
    IF IsNullable(t) THEN NullableUnmarshalCSV(t, data)
    ELSE LET parsed == ParseRFC3339(data)
         IN  IF parsed.err # ""
             THEN Decoded(ZeroOf(t), TimeParseError(data), <<"UnmarshalCSV">>)
             ELSE Decoded(IntVal(t.name, parsed.val), NoErr, <<"UnmarshalCSV">>)

\* encoding.TextUnmarshaler into a fresh value: net.IP.UnmarshalText, time.Time.UnmarshalText
UnmarshalText(t, data) ==
    IF t.name = "net.IP"
    THEN LET parsed == ParseIP(data)
         IN  IF Len(data) = 0 THEN Decoded(ZeroOf(t), NoErr, <<"UnmarshalText">>)
             ELSE IF parsed.err # ""
                  THEN Decoded(ZeroOf(t),
                               GoErr("conversion", "invalid IP address: " \o data, {}),
                               <<"UnmarshalText">>)
             ELSE Decoded(GoVal(t.name, parsed.val, 0, "", TRUE, <<>>), NoErr, <<"UnmarshalText">>)
    ELSE LET parsed == ParseRFC3339(data)
         IN  IF parsed.err # ""
             THEN Decoded(ZeroOf(t), TimeParseError(data), <<"UnmarshalText">>)
             ELSE Decoded(IntVal(t.name, parsed.val), NoErr, <<"UnmarshalText">>)

(***************************************************************************)
(* getEncoderProvider(fieldType, omitEmpty), applied to val.               *)
(***************************************************************************)
\* isZero / isZeroZeroer, as chosen at the head of getEncoderProvider
zeroerFunc(fieldType, val) ==
    IF Implements(fieldType, "Zeroer") THEN ZeroerIsZero(fieldType, val)
    ELSE IF ValueIsZero(fieldType, val) THEN "yes" ELSE "no"

\* the scalar conversion of the kind switch; val still has the declared type, so
\* for a pointer field the reflect accessors see a Ptr value
scalarEncode(fieldType, kind, val) ==
    CASE kind = "string" ->
            Encoded(IF fieldType.kind = "ptr" THEN "<" \o fieldType.name \o " Value>" ELSE val.s,
                    NoErr, <<"Value.String">>)
      [] kind \in IntKinds ->
            IF fieldType.kind = "ptr" THEN EncodePanic(<<"Value.Int">>)
            ELSE Encoded(FormatInt(val.i), NoErr, <<"FormatInt">>)
      [] kind \in UintKinds ->
            IF fieldType.kind = "ptr" THEN EncodePanic(<<"Value.Uint">>)
            ELSE Encoded(FormatUint(val.i), NoErr, <<"FormatUint">>)
      [] kind \in FloatKinds ->
            IF fieldType.kind = "ptr" THEN EncodePanic(<<"Value.Float">>)
            ELSE Encoded(FormatFloat(val.i, val.e), NoErr, <<"FormatFloat">>)
      [] kind = "bool" ->
            IF fieldType.kind = "ptr" THEN EncodePanic(<<"Value.Bool">>)
            ELSE Encoded(IF val.b THEN "TRUE" ELSE "FALSE", NoErr, <<"Value.Bool">>)

\* the branch taken once it is known whether the value is omitted
omitOr(fieldType, omitEmpty, val, conversion) ==
    LET zero == IF omitEmpty THEN zeroerFunc(fieldType, val) ELSE "no"
    IN  IF zero = "panic" THEN EncodePanic(<<>>)
        ELSE IF zero = "yes" THEN Encoded("", NoErr, <<>>)
        ELSE conversion

\* a provider that looks for encoding.TextMarshaler before MarshalCSV
EncoderTextFirst(fieldType, omitEmpty, val) ==
    IF Implements(fieldType, "TextMarshaler")
    THEN omitOr(fieldType, omitEmpty, val, MarshalText(fieldType, val))
    ELSE IF Implements(fieldType, "MarshalCSV")
    THEN omitOr(fieldType, omitEmpty, val, MarshalCSV(fieldType, val))
    ELSE omitOr(fieldType, omitEmpty, val,
                scalarEncode(fieldType, Base(fieldType).kind, val))

Encoder(fieldType, omitEmpty, val) ==
    LET elemType == IF fieldType.kind = "ptr" THEN fieldType.elem[1] ELSE fieldType
    IN  IF Implements(fieldType, "MarshalCSV")
        THEN omitOr(fieldType, omitEmpty, val, MarshalCSV(fieldType, val))
        ELSE IF Implements(fieldType, "TextMarshaler")
        THEN omitOr(fieldType, omitEmpty, val, MarshalText(fieldType, val))
        ELSE IF Implements(fieldType, "Stringer")
        \* val.Interface().(encoding.TextMarshaler): the type has no MarshalText
        THEN omitOr(fieldType, omitEmpty, val, EncodePanic(<<>>))
        ELSE IF elemType.kind \in ScalarKinds
        THEN omitOr(fieldType, omitEmpty, val, scalarEncode(fieldType, elemType.kind, val))
        ELSE Encoded("", GoErr("type-support", "can not serialize type " \o elemType.kind, {}),
                     <<>>)

(***************************************************************************)
(* getDecoderProvider(fieldType, fieldName, required), applied to          *)
(* (s, isNull).                                                            *)
(***************************************************************************)
errFieldRequired(fieldName) == GoErr("required", fieldName \o " is a required field", {})

\* what the decoder of a numeric or boolean kind returns when len(s) == 0
emptyScalar(kind) == IF kind = "bool" THEN BoolVal(FALSE) ELSE IntVal("int", 0)

\* the parse of the kind switch, for a text that is not empty
scalarParse(kind, str) ==
    CASE kind \in IntKinds ->
            LET parsed == ParseInt(str, BitSize(kind))
            IN  Decoded(IntVal(kind, parsed.val), ParseErr("ParseInt", str, parsed), <<"ParseInt">>)
      [] kind \in UintKinds ->
            LET parsed == ParseUint(str, BitSize(kind))
            IN  Decoded(IntVal(kind, parsed.val), ParseErr("ParseUint", str, parsed), <<"ParseUint">>)
      [] kind \in FloatKinds ->
            LET parsed == ParseFloat(str)
            IN  Decoded(FloatVal(kind, parsed.val.m, parsed.val.e),
                        ParseErr("ParseFloat", str, parsed), <<"ParseFloat">>)
      [] kind = "bool" ->
            LET parsed == ParseBool(str)
            IN  Decoded(BoolVal(parsed.val), ParseErr("ParseBool", str, parsed), <<"ParseBool">>)

scalarDecode(kind, str) ==
    IF kind = "string" THEN Decoded(StringVal(str), NoErr, <<>>)
    ELSE IF Len(str) = 0 THEN Decoded(emptyScalar(kind), NoErr, <<>>)
    ELSE scalarParse(kind, str)

\* a decoder that goes on to the conversion whether the field is required or not
requiredIgnored(fieldName, required, isNull, decoding) == decoding

\* if required && isNull { return nil, errFieldRequired(fieldName) }: the check
\* every branch of getDecoderProvider but the default one starts with
requiredOr(fieldName, required, isNull, decoding) ==
    IF required /\ isNull THEN Decoded(NilVal, errFieldRequired(fieldName), <<>>)
    ELSE decoding

Decoder(fieldType, fieldName, required, str, isNull) ==
    LET ptrType == IF fieldType.kind # "ptr" THEN PtrTo(fieldType) ELSE fieldType
        elem    == ptrType.elem[1]
    IN  IF Implements(ptrType, "UnmarshalCSV")
        THEN requiredOr(fieldName, required, isNull, UnmarshalCSV(elem, str))
        ELSE IF Implements(ptrType, "TextUnmarshaler")
        THEN requiredOr(fieldName, required, isNull, UnmarshalText(elem, str))
        ELSE IF elem.kind \in ScalarKinds
        THEN requiredOr(fieldName, required, isNull, scalarDecode(elem.kind, str))
        ELSE Decoded(StringVal(""),
                     GoErr("type-support", "can not unserialize type " \o ptrType.kind, {}),
                     <<>>)

(***************************************************************************)
(* Tags and instructions (csvInstruction).  A struct field is              *)
(* [name, type, hasTag, tag]: hasTag says whether the field carries a csv  *)
(* tag at all.  The closures an instruction holds are the parameters they  *)
(* were resolved with: encoder = (fieldType, omitEmpty), decoder =         *)
(* (fieldType, fieldName, required).                                       *)
(***************************************************************************)
StructField(name, type, hasTag, tag) ==
    [name |-> name, type |-> type, hasTag |-> hasTag, tag |-> tag]

Tagged(name, type, tag) == StructField(name, type, TRUE, tag)

Untagged(name, type) == StructField(name, type, FALSE, "")

\* tagParts.Find: whether some part starts with key
Find(parts, key) == \E i \in 1..Len(parts) : HasPrefix(parts[i], key)

\* csvInstruction.FieldName
FieldName(tag) == SplitN2(tag, ",")[1]

\* csvInstruction.Skip
Skip(tag) == SplitN2(tag, ",")[1] = "-"

\* the name GetMetadata leaves in the instruction it returns: the assignment
\* c.exportedFieldName = fieldName is made to the receiver, not to instruction
exportedFieldNameOf(fieldName) == ""

\* csvInstruction.GetMetadata
GetMetadata(field, tag) ==
    LET parts     == Split(tag, ",")
        options   == IF Len(parts) > 1 THEN Tail(parts) ELSE <<>>
        omitEmpty == Len(parts) > 1 /\ Find(options, "omitempty")
        required  == Len(parts) > 1 /\ Find(options, "required")
        fieldName == FieldName(tag)
    IN  [fieldType |-> field.type, omitEmpty |-> omitEmpty, required |-> required,
         fieldName |-> fieldName, exportedFieldName |-> exportedFieldNameOf(fieldName)]

\* csvInstruction.GetCSVHeaderIdentifier
GetCSVHeaderIdentifier(instruction) == instruction.exportedFieldName

\* csvInstruction.GetEncoder / the encoder field, applied
Encode(instruction, val) == Encoder(instruction.fieldType, instruction.omitEmpty, val)

\* csvInstruction.GetDecoder, applied
Decode(instruction, str, isNull) ==
    Decoder(instruction.fieldType, instruction.fieldName, instruction.required, str, isNull)

(***************************************************************************)
(* The record shape cache (package rcache, fieldCache).  Its field walk is *)
(* not part of this repository: it is taken from what the repository says  *)
(* of it (fields without a csv tag and fields whose tag Skip accepts are   *)
(* left out; the others are kept in declaration order with their position *)
(* and looked up by FieldName(tag)).                                       *)
(***************************************************************************)
RECURSIVE walkFields(_, _)
walkFields(shape, i) ==
    IF i > Len(shape) THEN <<>>
    ELSE LET field == shape[i]
             rest  == walkFields(shape, i + 1)
         IN  IF ~field.hasTag \/ Skip(field.tag) THEN rest
             ELSE <<[Idx |-> i - 1, Name |-> FieldName(field.tag),
                     data |-> GetMetadata(field, field.tag)]>> \o rest

\* fieldCache.GetTypeDataFor(t).Fields()
Fields(shape) == walkFields(shape, 1)

NoField == [Idx |-> -1, Name |-> "", data |-> GetMetadata(Untagged("", Scalar("string")), "")]

\* FieldCache.GetFieldByName: NoField stands for nil
GetFieldByName(fs, name) ==
    IF \E i \in 1..Len(fs) : fs[i].Name = name
    THEN fs[CHOOSE i \in 1..Len(fs) :
                /\ fs[i].Name = name
                /\ \A j \in (i + 1)..Len(fs) : fs[j].Name # name]
    ELSE NoField

\* the zero value of a struct type (var out Record)
ZeroRecord(shape) == [i \in 1..Len(shape) |-> ZeroOf(shape[i].type)]

(***************************************************************************)
(* Record shapes: the structs of the tests.                                *)
(***************************************************************************)
simpleCSVRecord ==
    << Tagged("AString", Scalar("string"), "a_string"),
       Tagged("AFloat", Scalar("float64"), "a_float"),
       Tagged("AnInt", Scalar("int"), "an_int"),
       Tagged("ABool", Scalar("bool"), "a_bool") >>

simpleCSVRecordStrictFail ==
    << Tagged("AString", Scalar("string"), "a_string"),
       Tagged("AFloat", Scalar("float64"), "a_float"),
       Tagged("AnInt", Scalar("int"), "an_int") >>

requiredCSVRecordStrictFail ==
    << Tagged("AString", Scalar("string"), "a_string,required"),
       Tagged("AFloat", Scalar("float64"), "a_float,required"),
       Tagged("AnInt", Scalar("int"), "an_int,required"),
       Tagged("ABool", Scalar("bool"), "a_bool") >>

\* fields of TestStruct: capability-backed and narrow kinds, required
requiredCapRecord ==
    << Tagged("Time", MarshallableTime, "marshallableTime,required"),
       Tagged("IP", IP, "ip,required"),
       Tagged("Int8", Scalar("int8"), "int8,required") >>

\* fields of simpleNullableCSVRecord, and a skipped and an untagged field
nullableCSVRecord ==
    << Tagged("AnInt", NullableField(Scalar("int")), "an_int"),
       Tagged("Skipped", Scalar("string"), "-"),
       Untagged("Plain", Scalar("string")),
       Tagged("ABool", NullableField(Scalar("bool")), "a_bool,required") >>

\* fields of TestStructPtr
ptrCSVRecord ==
    << Tagged("String", PtrTo(Scalar("string")), "string"),
       Tagged("Int", PtrTo(Scalar("int")), "int,required") >>

(***************************************************************************)
(* The Reader.                                                             *)
(***************************************************************************)
VARIABLES
    shape,            \* the Record type parameter of the Reader
    instruction,      \* Reader.instruction: the cached instruction set of the shape
    StrictMode,       \* Reader.StrictMode
    currentRow,       \* Reader.currentRow
    headerRead,       \* Reader.headerRead
    headerMap,        \* Reader.headerMap, as a set of <<name, position>>
    headers,          \* Reader.headers
    fieldsPerRecord,  \* csv.Reader.FieldsPerRecord of Reader.reader
    atEOF,            \* the input of Reader.reader is exhausted
    consumed,         \* the number of lines Reader.reader has consumed
    last              \* what the last call of Next did and returned

readerVars == <<shape, instruction, StrictMode, currentRow, headerRead, headerMap, headers,
                fieldsPerRecord, atEOF, consumed, last>>

VARIABLES
    wShape,           \* the Record type parameter of the Writer
    headerWritten,    \* Writer.headerWritten
    sink,             \* the rows written through Writer.w and flushed, in order
    writes,           \* the number of WriteRecord calls made
    wLast             \* what the last call of WriteRecord was given and returned

writerVars == <<wShape, headerWritten, sink, writes, wLast>>

VARIABLES
    cType,            \* the declared type of the field under test
    cOmit,            \* its tag holds omitempty
    cReq,             \* its tag holds required
    cVal,             \* the value of the field
    cEnc,             \* the last result of the field's encoder
    cDec              \* the last result of the field's decoder, with its input

codecVars == <<cType, cOmit, cReq, cVal, cEnc, cDec>>

VARIABLES
    nElem,            \* the type parameter T of the NullableField variables
    arrays,           \* the backing arrays allocated for them, by address
    fields,           \* the NullableField variables: the slice header each holds
    copied,           \* one of them was assigned to the other while it held a value
    nLast             \* the last method call on one of them and what it returned

nullableVars == <<nElem, arrays, fields, copied, nLast>>

VARIABLES
    tagParts,         \* the column name and the options a csv tag is written with
    tagMeta           \* what GetMetadata made of the tag

tagVars == <<tagParts, tagMeta>>

vars == <<readerVars, writerVars, codecVars, nullableVars, tagVars>>

\* the most lines an input holds
MaxLines == 3

ReaderShapes == {simpleCSVRecord, simpleCSVRecordStrictFail, requiredCSVRecordStrictFail,
                 requiredCapRecord, nullableCSVRecord, ptrCSVRecord}

ColumnNames(sh) == [i \in 1..Len(Fields(sh)) |-> Fields(sh)[i].Name]

Reverse(seq) == [i \in 1..Len(seq) |-> seq[Len(seq) + 1 - i]]

\* the header rows an input for the shape may start with: the columns in
\* declaration order, reversed, with two unknown columns, a repeated column
HeaderRows(sh) ==
    LET cols == ColumnNames(sh)
    IN  { cols, Reverse(cols), <<cols[1], "extra", "other">>,
          <<cols[Len(cols)], cols[Len(cols)]>> }

\* the cell texts of the data rows
CellTexts(sh) ==
    IF sh = requiredCapRecord THEN {"", "1", FormatRFC3339(3), FormatIP(7)}
    ELSE {"", "1", "x"}

RECURSIVE RowsOf(_, _)
RowsOf(n, texts) ==
    IF n = 0 THEN {<<>>}
    ELSE {<<c>> \o r : c \in texts, r \in RowsOf(n - 1, texts)}

ErrEOF == GoErr("eof", "EOF", {"io.EOF"})

ErrFieldCount == GoErr("read", "wrong number of fields", {"csv.ErrFieldCount"})

ErrParse == GoErr("read", "bare \" in non-quoted-field", {"csv.ErrBareQuote"})

ReadResult(record, err, fpr, eof, n) ==
    [record |-> record, err |-> err, fieldsPerRecord |-> fpr, atEOF |-> eof, consumed |-> n]

\* csv.Reader.Read: what one call may return, with rows the rows the input may
\* hold next.  A record of the wrong length comes back with ErrFieldCount; a
\* line that does not parse sets FieldsPerRecord when it was not set yet.
Read(fpr, eof, n, rows) ==
    IF eof \/ n >= MaxLines THEN {ReadResult(<<>>, ErrEOF, fpr, TRUE, n)}
    ELSE {ReadResult(<<>>, ErrEOF, fpr, TRUE, n)}
         \cup {ReadResult(<<>>, ErrParse, IF fpr = 0 THEN k ELSE fpr, FALSE, n + 1) : k \in {0, 2}}
         \cup {ReadResult(row,
                          IF fpr > 0 /\ Len(row) # fpr THEN ErrFieldCount ELSE NoErr,
                          IF fpr = 0 THEN Len(row) ELSE fpr, FALSE, n + 1) : row \in rows}

\* Reader.readHeader: the state it leaves and its error
readHeader(rd) ==
    IF IsErr(rd.err)
    THEN [err |-> Wrap(rd.err, "reading csv header"), headers |-> headers,
          headerMap |-> headerMap, headerRead |-> FALSE, currentRow |-> currentRow]
    ELSE [err |-> NoErr, headers |-> headers \o rd.record,
          headerMap |-> {<<rd.record[k], k - 1>> : k \in
                            {k \in 1..Len(rd.record) :
                                \A j \in (k + 1)..Len(rd.record) : rd.record[j] # rd.record[k]}},
          headerRead |-> TRUE, currentRow |-> currentRow + 1]

\* a strict check that reports the last header with no instruction
strictCheckLast(instructions, hdrs) ==
    LET bad == {k \in 1..Len(hdrs) : GetFieldByName(instructions, hdrs[k]) = NoField}
    IN  IF bad = {} THEN NoErr
        ELSE LET final == CHOOSE k \in bad : \A j \in bad : k >= j
             IN  GoErr("strict", hdrs[final] \o " was seen in the csv but not in the record provided", {})

\* the loop of initialize under StrictMode: the first header with no instruction
strictCheck(instructions, hdrs) ==
    LET bad == {k \in 1..Len(hdrs) : GetFieldByName(instructions, hdrs[k]) = NoField}
    IN  IF bad = {} THEN NoErr
        ELSE LET first == CHOOSE k \in bad : \A j \in bad : k <= j
             IN  GoErr("strict", hdrs[first] \o " was seen in the csv but not in the record provided", {})

\* Reader.initialize
initialize(instructions, strict, rd) ==
    LET h == readHeader(rd)
    IN  IF IsErr(h.err) THEN [h EXCEPT !.err = Trace(h.err)]
        ELSE IF strict THEN [h EXCEPT !.err = Trace(strictCheck(instructions, h.headers))]
        ELSE h

\* reflect.Value.Set: the value is assignable to a field of the type
Assignable(type, val) == val.k = type.name

\* a store that takes the first field of the record whatever the instruction says
setFirstField(out, fieldData, val) == [out EXCEPT ![1] = val]

\* out.Field(fieldData.Idx).Set(reflect.ValueOf(val))
setField(out, fieldData, val) == [out EXCEPT ![fieldData.Idx + 1] = val]

\* what the loop of Next notes of one cell: the field it is for, the decoding made
cellEntry(cellOffset, fieldData, isNull, dec) ==
    [cellOffset |-> cellOffset, Idx |-> fieldData.Idx, isNull |-> isNull,
     val |-> dec.val, err |-> dec.err, called |-> dec.called]

RECURSIVE decodeCells(_, _, _, _, _, _)
\* one cell of the loop of Next, with the instruction found for its header and
\* the decoding made of it, and the rest of the loop
decodeCell(sh, hdrs, row, cellOffset, out, log, fieldData, entry) ==
    IF IsErr(entry.err)
    THEN [out |-> out, err |-> Trace(entry.err), panic |-> FALSE, log |-> Append(log, entry)]
    ELSE IF ~Assignable(sh[fieldData.Idx + 1].type, entry.val)
    THEN [out |-> out, err |-> NoErr, panic |-> TRUE, log |-> Append(log, entry)]
    ELSE decodeCells(sh, hdrs, row, cellOffset + 1, setField(out, fieldData, entry.val),
                     Append(log, entry))

\* the field of the record the cell under a header is for
cellField(hdrs, cellOffset) == GetFieldByName(instruction, hdrs[cellOffset])

\* the loop of Next over the cells of row from cellOffset on (counted from 1):
\* the record so far, the error or panic that ended it, the decodings made
decodeCells(sh, hdrs, row, cellOffset, out, log) ==
    IF cellOffset > Len(row) THEN [out |-> out, err |-> NoErr, panic |-> FALSE, log |-> log]
    ELSE IF cellOffset > Len(hdrs)
         \* r.headers[cellOffset]: index out of range
         THEN [out |-> out, err |-> NoErr, panic |-> TRUE, log |-> log]
    ELSE IF cellField(hdrs, cellOffset) = NoField
         THEN decodeCells(sh, hdrs, row, cellOffset + 1, out, log)
    ELSE decodeCell(sh, hdrs, row, cellOffset, out, log, cellField(hdrs, cellOffset),
                    cellEntry(cellOffset, cellField(hdrs, cellOffset),
                              Len(row[cellOffset]) = 0,
                              Decode(cellField(hdrs, cellOffset).data, row[cellOffset],
                                     Len(row[cellOffset]) = 0)))

\* Reader.nextRow: the error it returns for the result of Read
nextRow(rd, row) ==
    IF IsErr(rd.err) THEN Wrap(rd.err, "on row " \o FormatInt(row)) ELSE NoErr

\* what a call of Next leaves in last
Returned(call, out, err, row, log, strict, first) ==
    [call |-> call, out |-> out, err |-> err, row |-> row, log |-> log,
     strict |-> strict, first |-> first]

ReaderInit ==
    /\ shape \in ReaderShapes
    /\ instruction = Fields(shape)
    /\ StrictMode = FALSE
    /\ currentRow = 0
    /\ headerRead = FALSE
    /\ headerMap = {}
    /\ headers = <<>>
    \* csv.NewReader leaves FieldsPerRecord 0: the first record read sets it
    /\ fieldsPerRecord = 0
    /\ atEOF = FALSE
    /\ consumed = 0
    /\ last = Returned("none", ZeroRecord(shape), NoErr, <<>>, <<>>, FALSE, FALSE)

\* the caller sets the exported field StrictMode
SetStrictMode ==
    /\ StrictMode' = ~StrictMode
    /\ UNCHANGED <<shape, instruction, currentRow, headerRead, headerMap, headers, fieldsPerRecord,
                   atEOF, consumed, last>>
    /\ UNCHANGED <<writerVars, codecVars, nullableVars, tagVars>>

\* the data rows the input may hold for the header read
DataRows(sh, hdrs) ==
    RowsOf(Len(hdrs), CellTexts(sh))
        \cup {[k \in 1..(Len(hdrs) + 1) |-> "1"], [k \in 1..(Len(hdrs) - 1) |-> "1"]}

\* the rest of Next once the header is there: nextRow and the loop over the cells
readRow(h, first) ==
    \E rd \in Read(h.fieldsPerRecord, h.atEOF, h.consumed, DataRows(shape, h.headers)) :
      \E res \in {decodeCells(shape, h.headers, rd.record, 1, ZeroRecord(shape), <<>>)} :
        /\ fieldsPerRecord' = rd.fieldsPerRecord
        /\ atEOF' = rd.atEOF
        /\ consumed' = rd.consumed
        /\ IF IsErr(nextRow(rd, h.currentRow))
           THEN /\ currentRow' = h.currentRow
                /\ last' = Returned("error", ZeroRecord(shape),
                                    Trace(nextRow(rd, h.currentRow)), <<>>, <<>>,
                                    StrictMode, first)
           ELSE /\ currentRow' = h.currentRow + 1
                /\ last' = Returned(IF res.panic THEN "panic"
                                    ELSE IF IsErr(res.err) THEN "error" ELSE "record",
                                    res.out, res.err, rd.record, res.log, StrictMode, first)

\* Reader.Next
ReaderNext ==
    LET first == last.call = "none"
    IN  /\ UNCHANGED <<shape, instruction, StrictMode>>
        /\ UNCHANGED <<writerVars, codecVars, nullableVars, tagVars>>
        /\ IF ~headerRead
           THEN \E rd \in Read(fieldsPerRecord, atEOF, consumed, HeaderRows(shape)) :
                   LET h == initialize(instruction, StrictMode, rd)
                   IN  /\ headers' = h.headers
                       /\ headerMap' = h.headerMap
                       /\ headerRead' = h.headerRead
                       /\ IF IsErr(h.err)
                          THEN /\ currentRow' = h.currentRow
                               /\ fieldsPerRecord' = rd.fieldsPerRecord
                               /\ atEOF' = rd.atEOF
                               /\ consumed' = rd.consumed
                               /\ last' = Returned("error", ZeroRecord(shape), Trace(h.err),
                                                   <<>>, <<>>, StrictMode, first)
                          ELSE readRow([headers |-> h.headers, currentRow |-> h.currentRow,
                                        fieldsPerRecord |-> rd.fieldsPerRecord,
                                        atEOF |-> rd.atEOF, consumed |-> rd.consumed], first)
           ELSE /\ UNCHANGED <<headers, headerMap, headerRead>>
                /\ readRow([headers |-> headers, currentRow |-> currentRow,
                            fieldsPerRecord |-> fieldsPerRecord, atEOF |-> atEOF,
                            consumed |-> consumed], first)


(***************************************************************************)
(* The Writer.                                                             *)
(***************************************************************************)
testWriterStruct ==
    << Tagged("Email", Scalar("string"), "email"),
       Tagged("Age", Scalar("int"), "age"),
       Tagged("Owed", Scalar("float64"), "owed"),
       Untagged("ShouldBill", Scalar("bool")) >>

testWriterOmitEmptyStruct ==
    << Tagged("Email", Scalar("string"), "email,omitempty"),
       Tagged("Age", Scalar("int"), "age,omitempty"),
       Tagged("Owed", Scalar("float64"), "owed,omitempty"),
       Untagged("ShouldBill", Scalar("bool")) >>

nullableOmitRecord ==
    << Tagged("AnInt", NullableField(Scalar("int")), "an_int,omitempty"),
       Tagged("ABool", NullableField(Scalar("bool")), "a_bool,omitempty") >>

aggregateRecord ==
    << Tagged("Name", Scalar("string"), "name"),
       Tagged("Inner", PlainStruct, "inner,omitempty") >>

WriterShapes == {testWriterStruct, testWriterOmitEmptyStruct, nullableOmitRecord,
                 aggregateRecord, ptrCSVRecord}

\* a NullableField holding v, an absent one that was never set (nil), and one
\* that was unset (empty, not nil)
Present(t, v) == GoVal(NullableField(t).name, 0, 0, "", TRUE, <<v>>)

Absent(t) == ZeroOf(NullableField(t))

Emptied(t) == GoVal(NullableField(t).name, 0, 0, "", TRUE, <<>>)

\* a pointer to v
PtrVal(t, v) == GoVal(PtrTo(t).name, 0, 0, "", TRUE, <<v>>)

\* the record of TestNewWriter
billRecord ==
    << StringVal("test@example.com"), IntVal("int", 32), FloatVal("float64", 651223, 2),
       BoolVal(TRUE) >>

\* the records a caller may hand to WriteRecord
SampleRecords(sh) ==
    CASE sh \in {testWriterStruct, testWriterOmitEmptyStruct} ->
            { billRecord, ZeroRecord(sh),
              <<StringVal("a,b"), IntVal("int", -7), FloatVal("float64", -5, 1), BoolVal(FALSE)>> }
      [] sh = nullableOmitRecord ->
            { ZeroRecord(sh),
              <<Present(Scalar("int"), IntVal("int", 0)), Present(Scalar("bool"), BoolVal(FALSE))>>,
              <<Emptied(Scalar("int")), Present(Scalar("bool"), BoolVal(TRUE))>> }
      [] sh = aggregateRecord ->
            { ZeroRecord(sh), <<StringVal("n"), IntVal("PlainStruct", 1)>> }
      [] sh = ptrCSVRecord ->
            { ZeroRecord(sh),
              <<PtrVal(Scalar("string"), StringVal("s")), ZeroOf(PtrTo(Scalar("int")))>>,
              <<ZeroOf(PtrTo(Scalar("string"))), PtrVal(Scalar("int"), IntVal("int", 5))>> }

\* the most calls of WriteRecord, and the most records one call is given
MaxWrites == 2

MaxItems == 2

RECURSIVE Batches(_, _)
Batches(n, records) ==
    IF n = 0 THEN {<<>>}
    ELSE Batches(n - 1, records)
         \cup {<<r>> \o b : r \in records, b \in {b \in Batches(n - 1, records) : Len(b) = n - 1}}

RECURSIVE encodeRow(_, _, _, _)
\* the inner loop of WriteRecord over the instructions from the j-th on
encodeRow(fs, item, j, row) ==
    IF j > Len(fs) THEN [row |-> row, err |-> NoErr, panic |-> FALSE]
    ELSE LET enc == Encode(fs[j].data, item[fs[j].Idx + 1])
         IN  IF enc.panic THEN [row |-> row, err |-> NoErr, panic |-> TRUE]
             ELSE IF IsErr(enc.err) THEN [row |-> row, err |-> Trace(enc.err), panic |-> FALSE]
             ELSE encodeRow(fs, item, j + 1, Append(row, enc.cell))

RECURSIVE writeItems(_, _, _, _)
\* the outer loop of WriteRecord over the items from the k-th on: the rows
\* written and what ended the loop
writeItems(fs, items, k, rows) ==
    IF k > Len(items) THEN [rows |-> rows, err |-> NoErr, panic |-> FALSE]
    ELSE LET r == encodeRow(fs, items[k], 1, <<>>)
         IN  IF r.panic \/ IsErr(r.err) THEN [rows |-> rows, err |-> r.err, panic |-> r.panic]
             ELSE writeItems(fs, items, k + 1, Append(rows, r.row))

\* Writer.writeHeader: the row it writes
writeHeader(fs) == [j \in 1..Len(fs) |-> GetCSVHeaderIdentifier(fs[j].data)]

\* a WriteRecord that writes the rows of the items and no header row
writeItemRows(fs, written, items) == writeItems(fs, items, 1, <<>>)

\* the rows one call of WriteRecord writes before the deferred Flush
writeRecordRows(fs, written, items) ==
    LET body == writeItems(fs, items, 1, <<>>)
    IN  [body EXCEPT !.rows = (IF written THEN <<>> ELSE <<writeHeader(fs)>>) \o @]

WriterInit ==
    /\ wShape \in WriterShapes
    /\ headerWritten = FALSE
    /\ sink = <<>>
    /\ writes = 0
    /\ wLast = [call |-> "none", items |-> <<>>, err |-> NoErr]

WriterIdle ==
    /\ wShape = <<>>
    /\ headerWritten = FALSE
    /\ sink = <<>>
    /\ writes = 0
    /\ wLast = [call |-> "none", items |-> <<>>, err |-> NoErr]

\* Writer.WriteRecord(items...)
WriteRecord ==
    /\ writes < MaxWrites
    /\ \E items \in Batches(MaxItems, SampleRecords(wShape)) :
          LET res == writeRecordRows(Fields(wShape), headerWritten, items)
          IN  /\ headerWritten' = TRUE
              /\ sink' = sink \o res.rows
              /\ wLast' = [call  |-> IF res.panic THEN "panic"
                                     ELSE IF IsErr(res.err) THEN "error" ELSE "ok",
                           items |-> items, err |-> res.err]
    /\ writes' = writes + 1
    /\ UNCHANGED wShape
    /\ UNCHANGED <<readerVars, codecVars, nullableVars, tagVars>>

(***************************************************************************)
(* encoding/csv.Writer.Write: the text of a row.                           *)
(***************************************************************************)
Contains(str, c) == \E i \in 1..Len(str) : CharAt(str, i) = c

fieldNeedsQuotes(field) ==
    /\ field # ""
    /\ \/ field = "\\."
       \/ Contains(field, ",") \/ Contains(field, "\"") \/ Contains(field, "\n")
       \/ Contains(field, "\r")
       \/ CharAt(field, 1) = " "

RECURSIVE EscapeQuotes(_)
EscapeQuotes(str) ==
    IF Len(str) = 0 THEN ""
    ELSE (IF CharAt(str, 1) = "\"" THEN "\"\"" ELSE CharAt(str, 1))
             \o EscapeQuotes(SubSeq(str, 2, Len(str)))

FieldText(field) ==
    IF fieldNeedsQuotes(field) THEN "\"" \o EscapeQuotes(field) \o "\"" ELSE field

RECURSIVE RowText(_)
RowText(row) ==
    IF Len(row) = 0 THEN "\n"
    ELSE IF Len(row) = 1 THEN FieldText(row[1]) \o "\n"
    ELSE FieldText(row[1]) \o "," \o RowText(Tail(row))

RECURSIVE SinkText(_)
\* the text the underlying io.Writer has received
SinkText(rows) == IF Len(rows) = 0 THEN "" ELSE RowText(rows[1]) \o SinkText(Tail(rows))

(***************************************************************************)
(* One field on its own: the encoder and the decoder resolved for a field  *)
(* type and its tag options, applied as Test_Cache applies them, and the   *)
(* methods of NullableField.                                               *)
(***************************************************************************)
NullableTypes == {NullableField(Scalar(k)) : k \in {"int", "string", "bool", "float64"}}

PointerTypes == {PtrTo(Scalar("int")), PtrTo(Scalar("string")), PtrTo(MarshallableTime)}

CodecTypes ==
    {Scalar(k) : k \in ScalarKinds} \cup NullableTypes \cup PointerTypes
        \cup {MarshallableTime, IP, PlainStruct, Level}

\* values of a scalar kind: its zero value, its extremes where the model keeps
\* the width, values of the tests
ScalarValues(kind) ==
    CASE kind = "string" -> {StringVal(""), StringVal("a string"), StringVal("11")}
      [] kind = "bool" -> {BoolVal(FALSE), BoolVal(TRUE)}
      [] kind = "int8" -> {IntVal(kind, x) : x \in {-128, 0, 12, 127}}
      [] kind = "int16" -> {IntVal(kind, x) : x \in {-32768, 0, 5235, 32767}}
      [] kind \in {"int", "int32", "int64"} -> {IntVal(kind, x) : x \in {-7, 0, 32, 1561235}}
      [] kind = "uint8" -> {IntVal(kind, x) : x \in {0, 12, 255}}
      [] kind = "uint16" -> {IntVal(kind, x) : x \in {0, 1256, 65535}}
      [] kind \in {"uint", "uint32", "uint64"} -> {IntVal(kind, x) : x \in {0, 1252, 123672}}
      [] kind = "float32" -> {FloatVal(kind, 0, 0), FloatVal(kind, 5, 1), FloatVal(kind, -225, 2)}
      [] kind = "float64" -> {FloatVal(kind, 0, 0), FloatVal(kind, 651223, 2),
                              FloatVal(kind, -5, 1), FloatVal(kind, 100, 0)}

\* the values a field of the type may hold
ValuesOf(t) ==
    CASE t = Level -> {IntVal(t.name, 0), IntVal(t.name, 2)}
      [] t.kind \in ScalarKinds /\ t # Level -> ScalarValues(t.kind)
      [] t \in NullableTypes ->
            {Absent(t.elem[1])} \cup {Present(t.elem[1], v) : v \in ScalarValues(t.elem[1].kind)}
      [] t \in PointerTypes ->
            {ZeroOf(t)} \cup {PtrVal(t.elem[1], v) :
                                v \in IF t.elem[1] = MarshallableTime
                                      THEN {IntVal(MarshallableTime.name, 3)}
                                      ELSE ScalarValues(t.elem[1].kind)}
      [] t = MarshallableTime -> {IntVal(t.name, 0), IntVal(t.name, 3)}
      [] t = IP -> {ZeroOf(t), GoVal(t.name, 7, 0, "", TRUE, <<>>)}
      [] t = PlainStruct -> {ZeroOf(t), IntVal(t.name, 1)}

\* the cell texts handed to a decoder
CodecTexts ==
    {"", "0", "12", "-129", "128", "256", "x", "true", "0.50", FormatRFC3339(3), FormatIP(7)}

NotRun == [done |-> FALSE, res |-> Encoded("", NoErr, <<>>)]

NotDecoded ==
    [from |-> "none", input |-> "", isNull |-> FALSE, res |-> Decoded(NilVal, NoErr, <<>>)]

CodecInit ==
    /\ cType \in CodecTypes
    /\ cOmit \in BOOLEAN
    /\ cReq \in BOOLEAN
    /\ cVal \in ValuesOf(cType)
    /\ cEnc = NotRun
    /\ cDec = NotDecoded

CodecIdle ==
    /\ cType = Scalar("string")
    /\ cOmit = FALSE
    /\ cReq = FALSE
    /\ cVal = StringVal("")
    /\ cEnc = NotRun
    /\ cDec = NotDecoded

\* field.InstructionData().GetEncoder()(value of the field)
EncodeField ==
    /\ ~cEnc.done
    /\ cEnc' = [done |-> TRUE, res |-> Encoder(cType, cOmit, cVal)]
    /\ UNCHANGED <<cType, cOmit, cReq, cVal, cDec>>
    /\ UNCHANGED <<readerVars, writerVars, nullableVars, tagVars>>

\* field.InstructionData().GetDecoder()(val, false) on the encoder's output
DecodeEncoded ==
    /\ cEnc.done /\ ~cEnc.res.panic /\ ~IsErr(cEnc.res.err)
    /\ cDec' = [from |-> "encoder", input |-> cEnc.res.cell, isNull |-> FALSE,
                res |-> Decoder(cType, "col", cReq, cEnc.res.cell, FALSE)]
    /\ UNCHANGED <<cType, cOmit, cReq, cVal, cEnc>>
    /\ UNCHANGED <<readerVars, writerVars, nullableVars, tagVars>>

\* the decoder on a cell as Next hands it over: isNull is len(cell) == 0
DecodeCell ==
    /\ \E cell \in CodecTexts :
          cDec' = [from |-> "cell", input |-> cell, isNull |-> Len(cell) = 0,
                   res |-> Decoder(cType, "col", cReq, cell, Len(cell) = 0)]
    /\ UNCHANGED <<cType, cOmit, cReq, cVal, cEnc>>
    /\ UNCHANGED <<readerVars, writerVars, nullableVars, tagVars>>

\* NullableField.Set
Set(n, val) == [n EXCEPT !.b = TRUE, !.n = <<val>>]

\* NullableField.Unset
Unset(n) == IF Len(n.n) = 0 THEN n ELSE [n EXCEPT !.b = TRUE, !.n = <<>>]

\* NullableField.IsNull
IsNull(n) == Len(n.n) = 0

\* NullableField.Get
Get(t, n) ==
    IF Len(n.n) = 0 THEN [val |-> ZeroOf(t.elem[1]), ok |-> FALSE]
    ELSE [val |-> n.n[1], ok |-> TRUE]

NullableSet ==
    /\ cType \in NullableTypes
    /\ \E v \in ScalarValues(cType.elem[1].kind) : cVal' = Set(cVal, v)
    /\ cEnc' = NotRun
    /\ cDec' = NotDecoded
    /\ UNCHANGED <<cType, cOmit, cReq>>
    /\ UNCHANGED <<readerVars, writerVars, nullableVars, tagVars>>

NullableUnset ==
    /\ cType \in NullableTypes
    /\ cVal' = Unset(cVal)
    /\ cEnc' = NotRun
    /\ cDec' = NotDecoded
    /\ UNCHANGED <<cType, cOmit, cReq>>
    /\ UNCHANGED <<readerVars, writerVars, nullableVars, tagVars>>

(***************************************************************************)
(* NullableField variables.  NullableField[T] is []T: a variable of the    *)
(* type holds a slice header [nil, ptr, len], and ptr is the address of a  *)
(* backing array of one element (its index in arrays).  Assigning one      *)
(* variable to another, or copying the record it is a field of, copies the *)
(* header.                                                                 *)
(***************************************************************************)
\* the most backing arrays allocated in one run
MaxArrays == 2

NullableElems == {Scalar(k) : k \in {"int", "int8", "string", "bool"}}

\* var n NullableField[T]
NilSlice == [nil |-> TRUE, ptr |-> 0, len |-> 0]

\* NullableField[T]{}
EmptySlice == [nil |-> FALSE, ptr |-> 0, len |-> 0]

\* the value a slice header stands for
SliceValue(t, mem, h) ==
    GoVal(NullableField(t).name, 0, 0, "", ~h.nil,
          IF h.len = 0 THEN <<>> ELSE <<mem[h.ptr]>>)

Called(mem, slice, err, decoded) ==
    [arrays |-> mem, slice |-> slice, err |-> err, decoded |-> decoded]

\* tmp := NullableField[T]{val}; *n = tmp
makeSlice(mem, val, decoded) ==
    Called(Append(mem, val), [nil |-> FALSE, ptr |-> Len(mem) + 1, len |-> 1], NoErr, decoded)

\* NullableField.Set through a pointer to the variable holding h
fieldSet(mem, h, val) ==
    IF h.len > 0 THEN Called([mem EXCEPT ![h.ptr] = val], h, NoErr, FALSE)
    ELSE makeSlice(mem, val, FALSE)

\* an Unset that leaves the variable as it is
fieldUnsetKept(mem, h) == Called(mem, h, NoErr, FALSE)

\* NullableField.Unset through a pointer to the variable holding h
fieldUnset(mem, h) ==
    IF h.len = 0 THEN Called(mem, h, NoErr, FALSE)
    ELSE Called(mem, EmptySlice, NoErr, FALSE)

\* NullableField.UnmarshalCSV through a pointer to the variable holding h;
\* decoded says whether the decoder of T was called
fieldUnmarshalCSV(t, mem, h, data) ==
    IF Len(data) = 0 THEN Called(mem, h, NoErr, FALSE)
    ELSE LET res == NullableUnmarshalCSV(NullableField(t), data)
         IN  IF IsErr(res.err) THEN Called(mem, h, res.err, TRUE)
             ELSE makeSlice(mem, res.val.n[1], TRUE)

\* n.Get() and n.IsNull() of the variable name
Observed(t, mem, fs, name) ==
    [get    |-> Get(NullableField(t), SliceValue(t, mem, fs[name])),
     isNull |-> IsNull(SliceValue(t, mem, fs[name]))]

OtherOf(name) == IF name = "A" THEN "B" ELSE "A"

NullableCall(op, on, val, data, res, fresh, other) ==
    [op |-> op, on |-> on, val |-> val, data |-> data, err |-> res.err,
     decoded |-> res.decoded, fresh |-> fresh, other |-> other]

NullableIdle ==
    /\ nElem = Scalar("int")
    /\ arrays = <<>>
    /\ fields = [name \in {"A", "B"} |-> NilSlice]
    /\ copied = FALSE
    /\ nLast = NullableCall("none", "A", NilVal, "", Called(<<>>, NilSlice, NoErr, FALSE),
                            TRUE, [get |-> [val |-> NilVal, ok |-> FALSE], isNull |-> TRUE])

\* var a, b NullableField[T]
NullableInit ==
    /\ nElem \in NullableElems
    /\ arrays = <<>>
    /\ fields = [name \in {"A", "B"} |-> NilSlice]
    /\ copied = FALSE
    /\ nLast = NullableCall("none", "A", NilVal, "", Called(<<>>, NilSlice, NoErr, FALSE),
                            TRUE, Observed(nElem, arrays, fields, "B"))

\* the variable on takes the outcome of a method call
NullableReturn(op, on, val, data, res) ==
    /\ arrays' = res.arrays
    /\ fields' = [fields EXCEPT ![on] = res.slice]
    /\ nLast' = NullableCall(op, on, val, data, res, fields[on].nil,
                             Observed(nElem, arrays, fields, OtherOf(on)))
    /\ UNCHANGED <<nElem, copied>>
    /\ UNCHANGED <<readerVars, writerVars, codecVars, tagVars>>

\* a.Set(v) or b.Set(v)
CallSet ==
    \E on \in {"A", "B"}, v \in ScalarValues(nElem.kind) :
        /\ fields[on].len > 0 \/ Len(arrays) < MaxArrays
        /\ NullableReturn("Set", on, v, "", fieldSet(arrays, fields[on], v))

\* a.Unset() or b.Unset()
CallUnset ==
    \E on \in {"A", "B"} :
        NullableReturn("Unset", on, NilVal, "", fieldUnset(arrays, fields[on]))

\* a.UnmarshalCSV(data) or b.UnmarshalCSV(data)
CallUnmarshalCSV ==
    \E on \in {"A", "B"}, data \in CodecTexts :
        /\ Len(arrays) < MaxArrays
        /\ NullableReturn("UnmarshalCSV", on, NilVal, data,
                          fieldUnmarshalCSV(nElem, arrays, fields[on], data))

\* b = a, or a = b: the header is copied, the backing array is not
CopyField ==
    \E on \in {"A", "B"} :
        /\ fields' = [fields EXCEPT ![on] = fields[OtherOf(on)]]
        /\ copied' = (copied \/ fields[OtherOf(on)].len > 0)
        /\ nLast' = NullableCall("Copy", on, NilVal, "",
                                 Called(arrays, fields[OtherOf(on)], NoErr, FALSE),
                                 fields[on].nil, Observed(nElem, arrays, fields, OtherOf(on)))
        /\ UNCHANGED <<nElem, arrays>>
        /\ UNCHANGED <<readerVars, writerVars, codecVars, tagVars>>

(***************************************************************************)
(* One csv tag on its own: GetMetadata applied to the tag of a field.      *)
(***************************************************************************)
\* the most options a tag holds after the column name
MaxOptions == 2

TagNames == {"a_string", "required", "omitempty", "-", ""}

OptionTexts ==
    {"required", "omitempty", "required=yes", "omitempty=1", "required_if",
     "omitemptyish", "isrequired", "Required", "default=omitempty", ""}

RECURSIVE OptionLists(_)
OptionLists(n) ==
    IF n = 0 THEN {<<>>}
    ELSE OptionLists(n - 1)
            \cup {Append(l, o) : l \in {m \in OptionLists(n - 1) : Len(m) = n - 1},
                                 o \in OptionTexts}

\* the text of the tag `csv:"name,opt,..."`
RECURSIVE TagText(_, _)
TagText(name, options) ==
    IF options = <<>> THEN name
    ELSE TagText(name \o "," \o Head(options), Tail(options))

Unparsed ==
    [parsed |-> FALSE,
     meta |-> [fieldType |-> Scalar("string"), omitEmpty |-> FALSE, required |-> FALSE,
               fieldName |-> "", exportedFieldName |-> ""]]

TagIdle ==
    /\ tagParts = [name |-> "", options |-> <<>>]
    /\ tagMeta = Unparsed

TagInit ==
    /\ tagParts \in [name : TagNames, options : OptionLists(MaxOptions)]
    /\ tagMeta = Unparsed

\* the cache builds the instruction of the field: c.GetMetadata(field, tag)
ParseTag ==
    /\ ~tagMeta.parsed
    /\ \E tag \in {TagText(tagParts.name, tagParts.options)} :
          tagMeta' = [parsed |-> TRUE,
                      meta |-> GetMetadata(Tagged("AField", Scalar("string"), tag), tag)]
    /\ UNCHANGED tagParts
    /\ UNCHANGED <<readerVars, writerVars, codecVars, nullableVars>>

(***************************************************************************)
(* Specifications: the Reader, the Writer, one field's codec, the          *)
(* NullableField variables, one csv tag.                                   *)
(***************************************************************************)
Init == ReaderInit /\ WriterIdle /\ CodecIdle /\ NullableIdle /\ TagIdle

Next == SetStrictMode \/ ReaderNext

Spec == Init /\ [][Next]_vars

WriterInitAll ==
    /\ WriterInit /\ CodecIdle /\ NullableIdle /\ TagIdle
    /\ shape = <<>> /\ instruction = <<>> /\ StrictMode = FALSE /\ currentRow = 0
    /\ headerRead = FALSE /\ headerMap = {} /\ headers = <<>> /\ fieldsPerRecord = 0
    /\ atEOF = FALSE /\ consumed = 0
    /\ last = Returned("none", <<>>, NoErr, <<>>, <<>>, FALSE, FALSE)

WriterNext == WriteRecord

WriterSpec == WriterInitAll /\ [][WriterNext]_vars

CodecInitAll ==
    /\ CodecInit /\ WriterIdle /\ NullableIdle /\ TagIdle
    /\ shape = <<>> /\ instruction = <<>> /\ StrictMode = FALSE /\ currentRow = 0
    /\ headerRead = FALSE /\ headerMap = {} /\ headers = <<>> /\ fieldsPerRecord = 0
    /\ atEOF = FALSE /\ consumed = 0
    /\ last = Returned("none", <<>>, NoErr, <<>>, <<>>, FALSE, FALSE)

CodecNext == EncodeField \/ DecodeEncoded \/ DecodeCell \/ NullableSet \/ NullableUnset

CodecSpec == CodecInitAll /\ [][CodecNext]_vars

NullableInitAll ==
    /\ NullableInit /\ WriterIdle /\ CodecIdle /\ TagIdle
    /\ shape = <<>> /\ instruction = <<>> /\ StrictMode = FALSE /\ currentRow = 0
    /\ headerRead = FALSE /\ headerMap = {} /\ headers = <<>> /\ fieldsPerRecord = 0
    /\ atEOF = FALSE /\ consumed = 0
    /\ last = Returned("none", <<>>, NoErr, <<>>, <<>>, FALSE, FALSE)

NullableNext == CallSet \/ CallUnset \/ CallUnmarshalCSV \/ CopyField

NullableSpec == NullableInitAll /\ [][NullableNext]_vars

TagInitAll ==
    /\ TagInit /\ WriterIdle /\ CodecIdle /\ NullableIdle
    /\ shape = <<>> /\ instruction = <<>> /\ StrictMode = FALSE /\ currentRow = 0
    /\ headerRead = FALSE /\ headerMap = {} /\ headers = <<>> /\ fieldsPerRecord = 0
    /\ atEOF = FALSE /\ consumed = 0
    /\ last = Returned("none", <<>>, NoErr, <<>>, <<>>, FALSE, FALSE)

TagNext == ParseTag

TagSpec == TagInitAll /\ [][TagNext]_vars

(***************************************************************************)
(* Properties of the Reader (specification Spec).                          *)
(***************************************************************************)
\* the column names the record shape has an instruction for
KnownColumns == {instruction[i].Name : i \in 1..Len(instruction)}

\* the header positions whose name has no instruction
UnknownPositions == {k \in 1..Len(headers) : headers[k] \notin KnownColumns}

\* the first call of Next was made under StrictMode and read the header
FirstStrictCall == last.first /\ last.strict /\ headerRead

\* C1: with StrictMode set before the first Next and a header holding a column
\* name with no instruction, the first call of Next returns the error
\* "<column> was seen in the csv but not in the record provided" for the first
\* such column in header order, and reads and decodes no data row.
C1_StrictUnknownColumn ==
    (FirstStrictCall /\ UnknownPositions # {}) =>
        /\ last.call = "error"
        /\ \E k \in UnknownPositions :
              /\ \A j \in UnknownPositions : k <= j
              /\ last.err.msg = headers[k] \o " was seen in the csv but not in the record provided"
        /\ last.row = <<>>
        /\ last.log = <<>>
        /\ last.out = ZeroRecord(shape)
        /\ consumed = 1

\* the first call failed the strict check on a header with two unknown columns
C1_Witness ==
    /\ FirstStrictCall
    /\ Cardinality(UnknownPositions) = 2
    /\ last.call = "error"
    /\ last.err.class = "strict"

\* the cells of the row last read that are empty under the column of a required field
RequiredEmptyCells ==
    {k \in 1..Len(last.row) :
        /\ k <= Len(headers)
        /\ last.row[k] = ""
        /\ \E i \in 1..Len(instruction) :
              instruction[i].Name = headers[k] /\ instruction[i].data.required}

\* the decodings the last call made of the cell at position k
EntriesOf(k) == {i \in 1..Len(last.log) : last.log[i].cellOffset = k}

\* the scalar parser or the unmarshal capability ran for the cell at position k
ConversionRan(k) == \E i \in EntriesOf(k) : last.log[i].called # <<>>

\* the call ended at a cell before position k: its decoding failed or the value
\* decoded could not be stored
EndedBefore(k) ==
    /\ last.log # <<>>
    /\ last.log[Len(last.log)].cellOffset < k
    /\ last.call \in {"error", "panic"}

\* C2 as stated: for every empty cell under a required column, Next fails with
\* "<column name> is a required field" and runs no conversion for the cell
C2_Original ==
    \A k \in RequiredEmptyCells :
        /\ last.call = "error"
        /\ last.err.msg = headers[k] \o " is a required field"
        /\ ~ConversionRan(k)

\* C2: when Next reads a data row with an empty cell under the column of a
\* required field, it returns no record for the row and runs neither the scalar
\* parser nor the unmarshal capability for that cell; unless the call ended at
\* an earlier cell of the row, its error is "<column name> is a required field".
C2_RequiredEmptyCell ==
    \A k \in RequiredEmptyCells :
        /\ last.call \in {"error", "panic"}
        /\ ~ConversionRan(k)
        /\ ~EndedBefore(k) =>
              /\ last.call = "error"
              /\ last.err.msg = headers[k] \o " is a required field"
              /\ last.err.class = "required"

\* a row whose second cell is empty under a required column of a type decoded
\* through a capability, after a first cell that decoded
C2_Witness ==
    /\ shape = requiredCapRecord
    /\ 2 \in RequiredEmptyCells
    /\ Len(last.log) = 2
    /\ last.log[1].called # <<>>
    /\ last.call = "error"
    /\ last.err.msg \in {"marshallableTime is a required field", "ip is a required field"}

\* the positions of the cells of the row last read whose header names the
\* column of the instruction
PositionsOf(fieldData) ==
    {k \in 1..Len(last.row) : k <= Len(headers) /\ headers[k] = fieldData.Name}

\* the header positions that name the column of the instruction
HeaderPositionsOf(fieldData) == {k \in 1..Len(headers) : headers[k] = fieldData.Name}

\* the value the last call decoded from the cell at position k
DecodedAt(k) == last.log[CHOOSE i \in EntriesOf(k) : TRUE].val

\* the fields of the record no cell of the row last read is for
Unfilled ==
    {p \in 1..Len(shape) :
        \A i \in 1..Len(instruction) :
            instruction[i].Idx + 1 = p => PositionsOf(instruction[i]) = {}}

\* C3 as stated: in a record Next returns, for each header position naming an
\* instruction's column the field at the instruction's position holds the value
\* decoded from the cell at that header position
C3_Original ==
    last.call = "record" =>
        \A i \in 1..Len(instruction) : \A k \in HeaderPositionsOf(instruction[i]) :
            /\ EntriesOf(k) # {}
            /\ last.out[instruction[i].Idx + 1] = DecodedAt(k)

\* C3: in a record Next returns, for each instruction whose column name heads
\* a cell of the row, the field at the instruction's position holds the value
\* decoded from the last such cell, whatever the order of the header; cells
\* under a header name with no instruction are not decoded; every field no
\* cell of the row is for keeps its zero value.
C3_RecordFilledByHeader ==
    last.call = "record" =>
        /\ \A i \in 1..Len(instruction) :
              PositionsOf(instruction[i]) # {} =>
                  \E k \in PositionsOf(instruction[i]) :
                      /\ \A j \in PositionsOf(instruction[i]) : j <= k
                      /\ EntriesOf(k) # {}
                      /\ last.out[instruction[i].Idx + 1] = DecodedAt(k)
        /\ \A k \in UnknownPositions : EntriesOf(k) = {}
        /\ \A p \in Unfilled : last.out[p] = ZeroOf(shape[p].type)
        /\ last.row # <<>> /\ ~IsErr(last.err)

\* the row x,1,1,1 under the columns of simpleCSVRecord in reverse order
C3_Witness ==
    /\ shape = simpleCSVRecord
    /\ headers = <<"a_bool", "an_int", "a_float", "a_string">>
    /\ last.call = "record"
    /\ last.row = <<"1", "1", "1", "x">>
    /\ last.out = <<StringVal("x"), FloatVal("float64", 1, 0), IntVal("int", 1), BoolVal(TRUE)>>

(***************************************************************************)
(* Properties of one field's encoder and decoder (specification CodecSpec).*)
(***************************************************************************)
ScalarTypes == {Scalar(k) : k \in ScalarKinds}

\* C4: for every numeric kind and bool, with required = false, the decoder
\* applied to the empty string with isNull = true returns the zero value of
\* that kind and no error, and does not run the parser.
C4_EmptyCellZeroOfKind ==
    (/\ cDec.from = "cell" /\ cDec.input = "" /\ cDec.isNull
     /\ ~cReq
     /\ cType \in ScalarTypes /\ cType.kind # "string") =>
        /\ ~IsErr(cDec.res.err)
        /\ cDec.res.called = <<>>
        /\ cDec.res.val = ZeroOf(cType)

\* the types whose values go through MarshalCSV and come back through UnmarshalCSV
MarshalCSVTypes == {t \in CodecTypes : t.kind # "ptr" /\ Implements(t, "MarshalCSV")}

\* C5: for every scalar kind and every value of it, and for a type encoded
\* through MarshalCSV and decoded through UnmarshalCSV, the decoder applied
\* with isNull = false to what the encoder made of the value returns no error
\* and the value, of the same kind.
C5_RoundTrip ==
    (cDec.from = "encoder" /\ cType \in ScalarTypes \cup MarshalCSVTypes) =>
        /\ ~IsErr(cDec.res.err)
        /\ cDec.res.val = cVal

\* the value of the field is zero: by IsZero where the type has it, by
\* reflect's zero check otherwise; a nil pointer is the zero value of its type
CodecZero ==
    \/ NilPtr(cType, cVal)
    \/ IF Implements(cType, "Zeroer") THEN ZeroerIsZero(cType, cVal) = "yes"
       ELSE ValueIsZero(cType, cVal)

\* C6: for a field tagged omitempty of whatever type, encoding a zero value
\* yields an empty cell and no error, and no conversion runs.
C6_OmitEmptyZero ==
    (cEnc.done /\ cOmit /\ CodecZero) =>
        /\ ~cEnc.res.panic
        /\ ~IsErr(cEnc.res.err)
        /\ cEnc.res.cell = ""
        /\ cEnc.res.called = <<>>

\* the text the encoder of a scalar kind makes of the kind's zero value
ZeroText(kind) ==
    CASE kind = "string" -> ""
      [] kind = "bool" -> "FALSE"
      [] OTHER -> "0"

\* an omitempty field of a NullableField type was encoded
NullableOmitEncoded == cEnc.done /\ cOmit /\ cType \in NullableTypes

\* C7 as stated: under omitempty a present NullableField never encodes to an
\* empty cell, a present zero value encodes to the text of that zero value,
\* and only an absent one encodes to an empty cell
C7_Original ==
    NullableOmitEncoded =>
        /\ ~IsErr(cEnc.res.err) /\ ~cEnc.res.panic
        /\ cEnc.res.cell = "" <=> IsNull(cVal)
        /\ (~IsNull(cVal) /\ cVal.n[1] = ZeroOf(cType.elem[1])) =>
              cEnc.res.cell = ZeroText(cType.elem[1].kind)

\* C7: under omitempty a present NullableField is never left out by the zero
\* check: MarshalCSV runs and the cell is what the encoder of T makes of the
\* value, "0" or "FALSE" for T's zero value and the empty text for the empty
\* string; an absent one encodes to an empty cell; an empty cell comes from an
\* absent one or from a present empty string.
C7_NullablePresentZero ==
    NullableOmitEncoded =>
        /\ ~IsErr(cEnc.res.err) /\ ~cEnc.res.panic
        /\ IsNull(cVal) => cEnc.res.cell = ""
        /\ ~IsNull(cVal) =>
              /\ cEnc.res.called # <<>> /\ cEnc.res.called[1] = "MarshalCSV"
              /\ cVal.n[1] = ZeroOf(cType.elem[1]) =>
                    cEnc.res.cell = ZeroText(cType.elem[1].kind)
        /\ cEnc.res.cell = "" =>
              \/ IsNull(cVal)
              \/ cType.elem[1].kind = "string" /\ cVal.n[1].s = ""

\* a NullableField[int] holding a present 0 encoded to "0" under omitempty
C7_Witness ==
    /\ NullableOmitEncoded
    /\ cType = NullableField(Scalar("int"))
    /\ cVal = Present(Scalar("int"), IntVal("int", 0))
    /\ cEnc.res.cell = "0"

(***************************************************************************)
(* Properties of the Writer (specification WriterSpec).                    *)
(***************************************************************************)
\* C8: over any sequence of WriteRecord calls the first row in the sink is a
\* header row holding every instruction's declared column name in instruction
\* order, written once and before any data row, and every row after it has one
\* cell per instruction.
C8_HeaderOfColumnNames ==
    sink # <<>> =>
        /\ sink[1] = ColumnNames(wShape)
        /\ \A i \in 2..Len(sink) : Len(sink[i]) = Len(sink[1])

\* a fresh Writer for testWriterStruct was handed the one record of TestNewWriter
BillWritten ==
    /\ wShape = testWriterStruct
    /\ writes = 1
    /\ wLast.items = <<billRecord>>

LastIsEOF == last.call = "error" /\ "io.EOF" \in last.err.is

\* C10: Next returns the end-of-data condition exactly when the header has
\* been read and the input holds no further row, on every later call too; a
\* header error, an input that ends before the header row included, is never
\* reported as the end of the data.
C10_EndOfData ==
    last.call # "none" => (LastIsEOF <=> (headerRead /\ atEOF))


(***************************************************************************)
(* Properties of the Reader: errors (specification Spec).                  *)
(***************************************************************************)
\* the last call of Next failed on the header: the header row could not be
\* read, or StrictMode found a header column the record does not have
HeaderFailed ==
    /\ last.call = "error"
    /\ \/ last.err.class = "strict"
       \/ \E i \in 1..Len(last.err.ctx) : last.err.ctx[i] = "reading csv header"

\* C16: once a call of Next has failed on the header (the header row could
\* not be read, the input ended at once, or StrictMode found an unknown
\* column), no later call of Next on the Reader returns a decoded record:
\* here, the call that follows such a failure does not.
C16_HeaderErrorsFatal == [][HeaderFailed => last'.call # "record"]_vars

\* the last call of Next failed on a data row: the row could not be read, or
\* one of its cells failed to decode (the end of the input is no failure)
DataRowFailed ==
    /\ last.call = "error"
    /\ ~HeaderFailed
    /\ "io.EOF" \notin last.err.is

\* C17: when Next fails on a data row, the error names the number of that
\* row, counted from 1 with the header row as row 1: the number of lines
\* consumed when the call returns.
C17_ErrorNamesRow ==
    DataRowFailed =>
        \E i \in 1..Len(last.err.ctx) : last.err.ctx[i] = "on row " \o FormatInt(consumed)

\* C18: a call of Next that returns an error returns the zero record with
\* it, also when cells of the row were decoded before the one that failed.
C18_NoPartialRecord == last.call = "error" => last.out = ZeroRecord(shape)

(***************************************************************************)
(* Properties of the capability dispatch (specification CodecSpec).        *)
(***************************************************************************)
\* the conversions called are those of the capability name alone; inner says
\* that the conversion itself goes on to the codec of an element type
OnlyConversion(called, name, inner) ==
    \/ called = <<>>
    \/ Head(called) = name /\ (inner \/ Len(called) = 1)

NoneOf(called, names) == \A i \in 1..Len(called) : called[i] \notin names

C15_StringerEncodes ==
    (/\ cEnc.done
     /\ Implements(cType, "Stringer")
     /\ ~Implements(cType, "MarshalCSV") /\ ~Implements(cType, "TextMarshaler")
     /\ ~(cOmit /\ ValueIsZero(cType, cVal)))
        => /\ ~cEnc.res.panic
           /\ cEnc.res.err = NoErr
           /\ cEnc.res.called = <<"String">>

\* C20: for a field whose type is a pointer to a scalar kind with no
\* capability, the encoder applied to the field's pointer value, when it is
\* not nil, returns the scalar encoding of the value pointed to, with no
\* error and no panic; and what the decoder returns for a cell that is not
\* empty can be stored into the field.
C20_PointerToScalar ==
    (cType.kind = "ptr" /\ cType.elem[1].kind \in ScalarKinds /\ cType.vcaps = {}) =>
        /\ (cEnc.done /\ cVal.b) =>
              /\ ~cEnc.res.panic
              /\ cEnc.res.err = NoErr
              /\ cEnc.res.cell = Encoder(cType.elem[1], FALSE, cVal.n[1]).cell
        /\ (cDec.from # "none" /\ cDec.input # "" /\ ~IsErr(cDec.res.err)) =>
              Assignable(cType, cDec.res.val)

(***************************************************************************)
(* Properties of the NullableField variables (specification NullableSpec). *)
(***************************************************************************)
\* what Get and IsNull answer for a variable that holds no value
NoValue == [get |-> [val |-> ZeroOf(nElem), ok |-> FALSE], isNull |-> TRUE]

\* C11: a NullableField variable holds zero or one element after any calls of
\* Set, Unset and UnmarshalCSV; right after Set(v), Get answers (v, true) and
\* IsNull false; at the start, right after Unset, and right after UnmarshalCSV
\* of the empty text on a variable never assigned, Get answers (zero of T,
\* false) and IsNull true; UnmarshalCSV of the empty text returns no error
\* and does not call the decoder of T.
C11_NullableContainer ==
    /\ \A name \in {"A", "B"} : fields[name].len \in {0, 1}
    /\ nLast.op = "Set" =>
          Observed(nElem, arrays, fields, nLast.on)
              = [get |-> [val |-> nLast.val, ok |-> TRUE], isNull |-> FALSE]
    /\ nLast.op = "none" =>
          \A name \in {"A", "B"} : Observed(nElem, arrays, fields, name) = NoValue
    /\ nLast.op = "Unset" => Observed(nElem, arrays, fields, nLast.on) = NoValue
    /\ (nLast.op = "UnmarshalCSV" /\ nLast.data = "") =>
          /\ nLast.err = NoErr
          /\ ~nLast.decoded
          /\ nLast.fresh => Observed(nElem, arrays, fields, nLast.on) = NoValue

\* an Unset has emptied a variable that held a value
C11_Witness ==
    /\ nLast.op = "Unset"
    /\ ~nLast.fresh
    /\ fields[nLast.on] = EmptySlice
    /\ Len(arrays) > 0

\* C19: once a NullableField variable holding a value was copied, a Set or an
\* Unset on one of the two variables leaves what Get and IsNull answer for the
\* other one as it was before the call.
C19_NoSharing ==
    (copied /\ nLast.op \in {"Set", "Unset"}) =>
        Observed(nElem, arrays, fields, OtherOf(nLast.on)) = nLast.other


(***************************************************************************)
(* Properties of the tag metadata (specification TagSpec).                 *)
(***************************************************************************)
\* the option is the text key, alone or followed by =value
IsOption(option, key) == option = key \/ HasPrefix(option, key \o "=")

\* C14: the metadata parsed from a tag has required = true exactly when one
\* of the options after the name is the text required, alone or followed by
\* =value, and omit-empty = true exactly when one is the text omitempty (the
\* suffix =value is let pass here as well); every other option, such as
\* required_if or omitemptyish, and the name itself set neither flag.
C14_TagFlags ==
    tagMeta.parsed =>
        /\ tagMeta.meta.required
              <=> \E i \in 1..Len(tagParts.options) : IsOption(tagParts.options[i], "required")
        /\ tagMeta.meta.omitEmpty
              <=> \E i \in 1..Len(tagParts.options) : IsOption(tagParts.options[i], "omitempty")

====
